---- MODULE Spec2Model ----
(***************************************************************************)
(* Model of the asynchronous OCR job lifecycle of bp-chandra-orc:          *)
(*   - the page component Home (index page): handleFileSelect,             *)
(*     handleSubmit and the poll loop pollJobStatus;                       *)
(*   - the API route handlers process, status/[jobId] and result/[jobId],  *)
(*     with the worker-facing client PythonAPIClient;                      *)
(*   - the external OCR worker and its job registry, as far as the routes  *)
(*     and the page observe them.                                          *)
(* Spec is the page with its poll loop; ServerSpec is the route handlers.  *)
(***************************************************************************)
EXTENDS Integers, Sequences, FiniteSets, TLC

(***************************************************************************)
(* Bounds of the model and constants of the program.                       *)
(***************************************************************************)
\* maximum number of submissions the page makes in one behaviour
MaxSubmits == 2

\* pollJobStatus: const maxAttempts = 60
maxAttempts == 60

NoFile == "nofile"
Null == "null"
Undefined == "undefined"

\* files the user can pick in the FileUpload component
Files == {"doc.pdf"}

\* job identifiers the worker hands out, one per accepted submission
JobIds == {ToString(n) : n \in 1..MaxSubmits}

\* a job the worker accepted before the requests that are modelled
EarlierJob == "0"
AllJobs == JobIds \cup {EarlierJob}

\* messages a worker or transport failure may carry (NoMsg: none carried)
NoMsg == ""
WorkerMsgs == {NoMsg, "worker says no"}
NetMsg == "Failed to fetch"

\* error strings of a failed job in the registry (NoMsg: record has no error)
JobErrors == {NoMsg, "corrupt document"}

\* result content of a completed job
Content == "# Page 1..."

(***************************************************************************)
(* Job records.  In the worker's registry jobs[j].status is "absent" until *)
(* the worker has accepted a submission under identifier j.  NullRecord    *)
(* stands for null / no data.                                              *)
(***************************************************************************)
Absent == "absent"
JobStates == {"pending", "processing", "completed", "failed"}
Terminal == {"completed", "failed"}
NoResult == "noresult"

JobRecord(j, st, err, res) ==
  [jobId |-> j, status |-> st, error |-> err, result |-> res]

NullRecord == JobRecord(Null, Null, NoMsg, NoResult)

VARIABLES
  \* ---- page component Home (React state and the closure of pollJobStatus)
  file,           \* useState file
  jobStatus,      \* useState jobStatus: Null or a job record
  isProcessing,   \* useState isProcessing
  error,          \* useState error: Null or a message
  pc,             \* position of the page's asynchronous flow
  attempts,       \* pollJobStatus: let attempts
  pollJobId,      \* pollJobStatus: parameter jobId captured by poll
  timer,          \* delay of the pending setTimeout(poll, ...), or NoTimer
  lastStored,     \* status of the record the session last stored, or Null
  request,        \* the fetch the page has issued and that is still pending
  outcome,        \* what the awaited fetch resolved to, not yet handled
  statusChecks,   \* fetches of /api/ocr/status/<jobId> issued by the session
  resultFetches,  \* fetches of /api/ocr/result/<jobId> issued by the session
  cancelled,      \* the caller selected/removed a file while the session ran
  submits,        \* number of handleSubmit calls so far
  \* ---- external worker
  jobs,           \* registry: AllJobs -> Absent or a job record
  \* ---- API route handlers (ServerSpec)
  req,            \* per handler invocation: the request being handled
  hpc,            \* per handler invocation: position of the handler
  workerCalls,    \* per handler invocation: HTTP requests sent to the worker
  workerReply,    \* per handler invocation: the worker's reply to its request
  response,       \* per handler invocation: the response sent, or NoResponse
  tmpFiles,       \* files present in the upload directory
  \* ---- validation layer applied to one input (ValidationSpec)
  probe,          \* the raw input: upload metadata, form fields or a filename
  verdict         \* what validation and sanitizing made of the probe

pageVars == <<file, jobStatus, isProcessing, error, pc, attempts, pollJobId,
              timer, lastStored, request, outcome, statusChecks, resultFetches,
              cancelled, submits>>
serverVars == <<req, hpc, workerCalls, workerReply, response, tmpFiles>>
valVars == <<probe, verdict>>
vars == <<pageVars, jobs, serverVars, valVars>>

(***************************************************************************)
(* logger.assert: throws Error("Assertion failed: <message>").             *)
(***************************************************************************)
AssertionFailed(message) == "Assertion failed: " \o message

(***************************************************************************)
(* Values of the [jobId] route parameter (req.query.jobId): a string,      *)
(* possibly empty, a string[] or undefined.                                *)
(***************************************************************************)
ArrayValue == "<string[]>"
UnknownJob == "no-such-job"
JobIdParams == AllJobs \cup {UnknownJob, "", ArrayValue, Undefined}

\* typeof jobId === 'string' && jobId.length > 0
IsNonEmptyString(jobId) == jobId \notin {Undefined, ArrayValue} /\ jobId # ""

\* jobId && jobId.length > 0   (a non-empty array is truthy and has length > 0)
JobIdRequired(jobId) == jobId # Undefined /\ jobId # ""

(***************************************************************************)
(* Replies of the worker to one HTTP request, as axios delivers them:      *)
(*   "ok"         a 2xx response whose body carries a success field;       *)
(*   "malformed"  a 2xx response with no body or no success field;         *)
(*   "axiosError" a non-2xx response, a timeout or no connection; msg is   *)
(*                error.response.data.error.message when there is one,     *)
(*                own is error.message, the axios error's own message.     *)
(***************************************************************************)
Body(success, data, message, code) ==
  [success |-> success, data |-> data, message |-> message, code |-> code]

NoCode == "nocode"
NoBody == Body(FALSE, NullRecord, NoMsg, NoCode)

OkReply(body) == [kind |-> "ok", body |-> body, msg |-> NoMsg, own |-> NoMsg]
MalformedReply == [kind |-> "malformed", body |-> NoBody, msg |-> NoMsg, own |-> NoMsg]

\* error.message of an axios error: of a non-2xx response, and of a request
\* that got no response
StatusCodeMsg == "Request failed with status code 500"
TransportMsg == "connect ECONNREFUSED"

\* an axios error with the worker's error message m, or (NoMsg) without a
\* response of the worker
AxiosError(m) ==
  [kind |-> "axiosError", body |-> NoBody, msg |-> m,
   own |-> IF m = NoMsg THEN TransportMsg ELSE StatusCodeMsg]

NoReply == [kind |-> "none", body |-> NoBody, msg |-> NoMsg, own |-> NoMsg]

FailureReplies ==
  {MalformedReply} \cup {AxiosError(m) : m \in WorkerMsgs}
  \cup {OkReply(Body(FALSE, NullRecord, m, "JOB_NOT_FOUND")) : m \in WorkerMsgs}

\* what a PythonAPIClient method hands back to the route handler
Returned(body) == [threw |-> FALSE, message |-> NoMsg, body |-> body, sent |-> TRUE]
Thrown(message, sent) ==
  [threw |-> TRUE, message |-> message, body |-> NoBody, sent |-> sent]

\* error.response?.data?.error?.message || fallback
OrElse(m, fallback) == IF m # NoMsg THEN m ELSE fallback

\* PythonAPIClient.getJobStatus / getJobResult: the two differ in messages only
ClientGet(jobId, reply, structureMsg, fallback) ==
  IF ~JobIdRequired(jobId)
  THEN Thrown(AssertionFailed("Job ID is required"), FALSE)
  ELSE CASE reply.kind = "ok" -> Returned(reply.body)
         [] reply.kind = "malformed" -> Thrown(AssertionFailed(structureMsg), TRUE)
         [] OTHER -> Thrown(OrElse(reply.msg, fallback), TRUE)

\* mutant of getJobStatus: a failed request is not thrown, the (empty) body
\* is returned
getJobStatusSwallowsErrors(jobId, reply) == Returned(reply.body)

getJobStatus(jobId, reply) ==
  ClientGet(jobId, reply, "Invalid status response structure",
            "Failed to check job status")

\* mutant of getJobResult: the record of a job that is not finished is
\* refused
getJobResultRequiresCompleted(jobId, reply) ==
  IF reply.kind = "ok" /\ reply.body.data.status \in {"pending", "processing"}
  THEN Thrown("Job not completed", TRUE)
  ELSE ClientGet(jobId, reply, "Invalid result response structure",
                 "Failed to fetch job result")

getJobResult(jobId, reply) ==
  ClientGet(jobId, reply, "Invalid result response structure",
            "Failed to fetch job result")

(***************************************************************************)
(* Responses of the route handlers: the HTTP status and the JSON envelope. *)
(* requestId, timestamp and duration record whether the field is present.  *)
(***************************************************************************)
Response(http, body, requestId, timestamp, duration) ==
  [http |-> http, success |-> body.success, data |-> body.data,
   message |-> body.message, code |-> body.code, details |-> {},
   requestId |-> requestId, timestamp |-> timestamp, duration |-> duration]

NoResponse == Response(0, NoBody, FALSE, FALSE, FALSE)

ErrorResponse(http, message, code, requestId) ==
  Response(http, Body(FALSE, NullRecord, message, code), requestId, TRUE, FALSE)

MethodNotAllowed == ErrorResponse(405, "Method not allowed", "METHOD_NOT_ALLOWED", FALSE)

\* mutant of PassThrough: the response is rebuilt from the success flag
\* alone, the worker's data is dropped
PassThroughWithoutData(body) ==
  Response(200, Body(body.success, NullRecord, body.message, body.code),
           TRUE, TRUE, TRUE)

\* res.status(200).json({...result, requestId, duration}); the worker's body
\* carries its own timestamp
PassThrough(body) == Response(200, body, TRUE, TRUE, TRUE)

\* mutant of QueryFailure: the catch block reports a generic code
QueryFailureGenericCode(message, fallback, code) ==
  ErrorResponse(500, OrElse(message, fallback), "INTERNAL_ERROR", TRUE)

\* the catch block of a query handler
QueryFailure(message, fallback, code) ==
  ErrorResponse(500, OrElse(message, fallback), code, TRUE)

\* mutant of AcceptsJobId: only the absence of the parameter is checked
AcceptsJobIdIfDefined(jobId) == jobId # Undefined

\* the job-id precondition of the status and result handlers
AcceptsJobId(jobId) == IsNonEmptyString(jobId)

\* handler of /api/ocr/status/[jobId]: the response, and whether a request
\* was sent to the worker, given the worker's reply to that request
StatusHandler(method, jobId, reply) ==
  IF method # "GET" THEN [resp |-> MethodNotAllowed, sent |-> FALSE]
  ELSE IF ~AcceptsJobId(jobId)
  THEN [resp |-> QueryFailure(AssertionFailed("Invalid job ID"),
                              "Failed to retrieve job status",
                              "STATUS_CHECK_ERROR"),
        sent |-> FALSE]
  ELSE LET r == getJobStatus(jobId, reply) IN
       IF r.threw
       THEN [resp |-> QueryFailure(r.message, "Failed to retrieve job status",
                                   "STATUS_CHECK_ERROR"),
             sent |-> r.sent]
       ELSE [resp |-> PassThrough(r.body), sent |-> TRUE]

\* handler of /api/ocr/result/[jobId]
ResultHandler(method, jobId, reply) ==
  IF method # "GET" THEN [resp |-> MethodNotAllowed, sent |-> FALSE]
  ELSE IF ~AcceptsJobId(jobId)
  THEN [resp |-> QueryFailure(AssertionFailed("Invalid job ID"),
                              "Failed to retrieve job result",
                              "RESULT_FETCH_ERROR"),
        sent |-> FALSE]
  ELSE LET r == getJobResult(jobId, reply) IN
       IF r.threw
       THEN [resp |-> QueryFailure(r.message, "Failed to retrieve job result",
                                   "RESULT_FETCH_ERROR"),
             sent |-> r.sent]
       ELSE [resp |-> PassThrough(r.body), sent |-> TRUE]

(***************************************************************************)
(* The worker's answers to GET status/<j> and GET result/<j>.  A known job *)
(* is answered with its record; the status answer carries no result        *)
(* content, the result answer carries it once the job is completed.  Any   *)
(* request may also fail.                                                  *)
(***************************************************************************)
StatusRecord(j) == JobRecord(j, jobs[j].status, jobs[j].error, NoResult)

ResultRecord(j) ==
  JobRecord(j, jobs[j].status, jobs[j].error,
            IF jobs[j].status = "completed" THEN jobs[j].content ELSE NoResult)

Known(j) == j \in AllJobs /\ jobs[j].status # Absent

WorkerStatusReplies(j) ==
  FailureReplies \cup
  (IF Known(j) THEN {OkReply(Body(TRUE, StatusRecord(j), NoMsg, NoCode))} ELSE {})

WorkerResultReplies(j) ==
  FailureReplies \cup
  (IF Known(j) THEN {OkReply(Body(TRUE, ResultRecord(j), NoMsg, NoCode))} ELSE {})

(***************************************************************************)
(* The external worker (not part of the Next.js sources): it accepts a     *)
(* submission as a pending job and later moves it pending -> processing    *)
(* -> completed | failed.                                                  *)
(***************************************************************************)
RegistryEntry(st, err, content) ==
  [status |-> st, error |-> err, content |-> content]

AbsentEntry == RegistryEntry(Absent, NoMsg, NoResult)

NextJobId == ToString(Cardinality({j \in JobIds : jobs[j].status # Absent}) + 1)

WorkerStart(j) ==
  /\ jobs[j].status = "pending"
  /\ jobs' = [jobs EXCEPT ![j].status = "processing"]

WorkerComplete(j) ==
  /\ jobs[j].status = "processing"
  /\ jobs' = [jobs EXCEPT ![j] = RegistryEntry("completed", NoMsg, Content)]

WorkerFail(j) ==
  /\ jobs[j].status \in {"pending", "processing"}
  /\ \E e \in JobErrors :
       jobs' = [jobs EXCEPT ![j] = RegistryEntry("failed", e, NoResult)]

Worker ==
  /\ \E j \in JobIds : WorkerStart(j) \/ WorkerComplete(j) \/ WorkerFail(j)
  /\ UNCHANGED <<pageVars, serverVars, valVars>>

(***************************************************************************)
(* lib/validation.ts.  A schema's safeParse is modelled by the set of      *)
(* issues it raises (success iff the set is empty) and the parsed data.    *)
(***************************************************************************)
\* parseInt(process.env.MAX_FILE_SIZE || '52428800')
MaxFileSize == 52428800

\* .max(32768) and parseInt(process.env.MAX_OUTPUT_TOKENS || '8192')
MaxOutputTokensLimit == 32768
DefaultMaxOutputTokens == 8192

\* process.env.INCLUDE_IMAGES === 'true', INCLUDE_HEADERS_FOOTERS === 'true'
DefaultIncludeImages == TRUE
DefaultIncludeHeadersFooters == FALSE

AllowedFileTypes ==
  {"application/pdf", "image/png", "image/jpeg", "image/jpg", "image/webp"}

OutputFormats == {"markdown", "html", "json"}

\* mutant of fileUploadIssues: parsing stops at the first field that fails
fileUploadIssuesFirstOnly(name, size, type) ==
  IF name = "" THEN {"name: File name is required"}
  ELSE IF size <= 0 THEN {"size: Number must be greater than 0"}
  ELSE IF size > MaxFileSize
  THEN {"size: File size exceeds maximum allowed size (50MB)"}
  ELSE IF type \notin AllowedFileTypes THEN {"type: Invalid file type"}
  ELSE {}

\* fileUploadSchema.safeParse({name, size, type}).error.errors
fileUploadIssues(name, size, type) ==
  (IF name = "" THEN {"name: File name is required"} ELSE {})
  \cup (IF size <= 0 THEN {"size: Number must be greater than 0"} ELSE {})
  \cup (IF size > MaxFileSize
        THEN {"size: File size exceeds maximum allowed size (50MB)"} ELSE {})
  \cup (IF type \notin AllowedFileTypes THEN {"type: Invalid file type"} ELSE {})

\* JavaScript values that may be undefined or NaN
Num(v) == [t |-> "number", v |-> v]
NaN == [t |-> "NaN", v |-> 0]
UndefinedNum == [t |-> "undefined", v |-> 0]

Digits == {"0", "1", "2", "3", "4", "5", "6", "7", "8", "9"}

\* /^(\d+(-\d+)?)(,\d+(-\d+)?)*$/.test(range), on the characters of range:
\* the automaton of the pattern.  "start": a run must begin; "first": in the
\* first number of a run; "dash": after the '-' of a run; "second": in the
\* second number of a run; "dead": no match possible.
PatternStep(q, c) ==
  CASE q = "start"  -> IF c \in Digits THEN "first" ELSE "dead"
    [] q = "first"  -> IF c \in Digits THEN "first"
                       ELSE IF c = "-" THEN "dash"
                       ELSE IF c = "," THEN "start" ELSE "dead"
    [] q = "dash"   -> IF c \in Digits THEN "second" ELSE "dead"
    [] q = "second" -> IF c \in Digits THEN "second"
                       ELSE IF c = "," THEN "start" ELSE "dead"
    [] OTHER        -> "dead"

RECURSIVE PatternRun(_, _)
PatternRun(q, chars) ==
  IF chars = <<>> THEN q ELSE PatternRun(PatternStep(q, Head(chars)), Tail(chars))

PatternTest(chars) == PatternRun("start", chars) \in {"first", "second"}

\* the refinement of pageRange: if (!range) return true; return pattern.test(range)
\* (range is <<"undefined">> when absent, else its characters; '' is falsy)
AbsentChars == <<"undefined">>
PageRangeOk(range) ==
  IF range = AbsentChars \/ range = <<>> THEN TRUE ELSE PatternTest(range)

\* ocrRequestSchema.safeParse(input).error.errors
ocrRequestIssues(input) ==
  (IF ~PageRangeOk(input.pageRange)
   THEN {"pageRange: Invalid page range format"} ELSE {})
  \cup (CASE input.maxOutputTokens.t = "undefined" -> {}
          [] input.maxOutputTokens.t = "NaN" ->
               {"maxOutputTokens: Expected number, received nan"}
          [] OTHER ->
               (IF input.maxOutputTokens.v <= 0
                THEN {"maxOutputTokens: Number must be greater than 0"} ELSE {})
               \cup (IF input.maxOutputTokens.v > MaxOutputTokensLimit
                     THEN {"maxOutputTokens: Number must be less than or equal to 32768"}
                     ELSE {}))
  \cup (IF input.outputFormat \notin OutputFormats \cup {Undefined}
        THEN {"outputFormat: Invalid enum value"} ELSE {})

\* mutant of ocrRequestData: the parsed data loses its pageRange
ocrRequestDataDropsRange(input) ==
  [pageRange |-> AbsentChars,
   maxOutputTokens |-> IF input.maxOutputTokens.t = "undefined"
                       THEN DefaultMaxOutputTokens ELSE input.maxOutputTokens.v,
   includeImages |-> IF input.includeImages = Undefined
                     THEN DefaultIncludeImages ELSE input.includeImages = "true",
   includeHeadersFooters |-> IF input.includeHeadersFooters = Undefined
                             THEN DefaultIncludeHeadersFooters
                             ELSE input.includeHeadersFooters = "true",
   outputFormat |-> IF input.outputFormat = Undefined
                    THEN "markdown" ELSE input.outputFormat]

\* ocrRequestSchema.safeParse(input).data, defaults applied
ocrRequestData(input) ==
  [pageRange |-> input.pageRange,
   maxOutputTokens |-> IF input.maxOutputTokens.t = "undefined"
                       THEN DefaultMaxOutputTokens ELSE input.maxOutputTokens.v,
   includeImages |-> IF input.includeImages = Undefined
                     THEN DefaultIncludeImages ELSE input.includeImages = "true",
   includeHeadersFooters |-> IF input.includeHeadersFooters = Undefined
                             THEN DefaultIncludeHeadersFooters
                             ELSE input.includeHeadersFooters = "true",
   outputFormat |-> IF input.outputFormat = Undefined
                    THEN "markdown" ELSE input.outputFormat]

(***************************************************************************)
(* Multipart form input of the process route.                              *)
(* A form field is undefined, a string or (formidable v3) a string[]; v is *)
(* the string, or the first element of the array.  pageRange and           *)
(* maxOutputTokens carry their characters, the other fields a string.      *)
(***************************************************************************)
Field(t, v) == [t |-> t, v |-> v]
NoChars == Field("undefined", <<>>)
NoString == Field("undefined", "")

\* getFieldValue(field) for a character field / a string field
getFieldChars(field) == IF field.t = "undefined" THEN AbsentChars ELSE field.v
getFieldString(field) == IF field.t = "undefined" THEN Undefined ELSE field.v

\* JavaScript truthiness of a field: undefined and '' are falsy, arrays truthy
TruthyChars(field) == field.t = "array" \/ (field.t = "string" /\ field.v # <<>>)

DigitValue(c) ==
  CASE c = "0" -> 0 [] c = "1" -> 1 [] c = "2" -> 2 [] c = "3" -> 3
    [] c = "4" -> 4 [] c = "5" -> 5 [] c = "6" -> 6 [] c = "7" -> 7
    [] c = "8" -> 8 [] c = "9" -> 9

\* the value of the longest prefix of digits of chars, continuing from acc
RECURSIVE DigitPrefix(_, _)
DigitPrefix(acc, chars) ==
  IF chars = <<>> \/ Head(chars) \notin Digits THEN acc
  ELSE DigitPrefix(10 * acc + DigitValue(Head(chars)), Tail(chars))

\* parseInt(chars): optional sign, then the longest prefix of digits
parseInt(chars) ==
  LET signed == chars # <<>> /\ Head(chars) \in {"-", "+"}
      body == IF signed THEN Tail(chars) ELSE chars
  IN IF body = <<>> \/ Head(body) \notin Digits THEN NaN
     ELSE IF signed /\ Head(chars) = "-" THEN Num(0 - DigitPrefix(0, body))
     ELSE Num(DigitPrefix(0, body))

\* the object the process handler passes to ocrRequestSchema.safeParse
OptionsInput(fields) ==
  [pageRange |-> getFieldChars(fields.pageRange),
   maxOutputTokens |->
     IF TruthyChars(fields.maxOutputTokens)
     THEN parseInt(IF getFieldChars(fields.maxOutputTokens) = <<>>
                   THEN <<"8", "1", "9", "2">>
                   ELSE getFieldChars(fields.maxOutputTokens))
     ELSE UndefinedNum,
   includeImages |->
     IF fields.includeImages.t = "string" /\ fields.includeImages.v = "true"
     THEN "true" ELSE "false",
   includeHeadersFooters |->
     IF fields.includeHeadersFooters.t = "string"
        /\ fields.includeHeadersFooters.v = "true"
     THEN "true" ELSE "false",
   outputFormat |->
     IF getFieldString(fields.outputFormat) \in {Undefined, ""}
     THEN "markdown" ELSE getFieldString(fields.outputFormat)]

\* an uploaded part in field 'file' as formidable reports it
Part(name, size, type) == [name |-> name, size |-> size, type |-> type]

\* the object the process handler passes to fileUploadSchema.safeParse
FileInput(part) ==
  [name |-> IF part.name \in {Null, ""} THEN "unknown" ELSE part.name,
   size |-> part.size,
   type |-> IF part.type \in {Null, ""} THEN "application/octet-stream" ELSE part.type]

FileIssues(part) ==
  fileUploadIssues(FileInput(part).name, FileInput(part).size, FileInput(part).type)

\* mutant of FileAccepted: the result of the file validation is ignored
FileAcceptedAlways(part) == TRUE

\* fileValidation.success
FileAccepted(part) == FileIssues(part) = {}

\* ocrOptions.success
OptionsAccepted(fields) == ocrRequestIssues(OptionsInput(fields)) = {}

(***************************************************************************)
(* Requests the route handlers receive.  Two handler invocations, which    *)
(* may run concurrently, are modelled.                                     *)
(***************************************************************************)
Handlers == {"h1", "h2"}

ValidPart == Part("Scan 1.PDF", 2097152, "application/pdf")

Uploads ==
  { <<>>,
    <<ValidPart>>,
    <<Part("Scan 1.PDF", MaxFileSize, "image/png")>>,
    <<Part("Scan 1.PDF", MaxFileSize + 1, "application/pdf")>>,
    <<Part("Scan 1.PDF", 0, "application/pdf")>>,
    <<Part("notes.txt", 2097152, "text/plain")>>,
    <<Part(Null, 2097152, Null)>>,
    <<ValidPart, Part("second.png", 1024, "image/png")>>,
    <<ValidPart, Part("notes.txt", 1024, "text/plain")>> }

Fields(pageRange, maxOutputTokens, includeImages, includeHeadersFooters, outputFormat) ==
  [pageRange |-> pageRange, maxOutputTokens |-> maxOutputTokens,
   includeImages |-> includeImages,
   includeHeadersFooters |-> includeHeadersFooters,
   outputFormat |-> outputFormat]

NoFields == Fields(NoChars, NoChars, NoString, NoString, NoString)

FieldSets ==
  { NoFields,
    \* what the page's handleSubmit sends with its initial options
    Fields(NoChars, Field("string", <<"8", "1", "9", "2">>),
           Field("string", "true"), Field("string", "false"),
           Field("string", "markdown")),
    Fields(Field("string", <<"1", "-", "5", ",", "7", ",", "9", "-", "1", "2">>),
           Field("string", <<"3", "2", "7", "6", "8">>),
           Field("string", "false"), Field("string", "true"),
           Field("string", "json")),
    Fields(Field("string", <<"1", "-">>), NoChars, NoString, NoString, NoString),
    Fields(NoChars, Field("string", <<"0">>), NoString, NoString, NoString),
    Fields(NoChars, NoChars, NoString, NoString, Field("string", "xml")) }

\* upload: the documents sent in the form field "file", in the order sent;
\* isArray: whether formidable reports files.file as an array of all of
\* them (TRUE) or as the single File it kept, the last one written (FALSE)
Request(kind, method, jobId, upload, fields) ==
  [kind |-> kind, method |-> method, jobId |-> jobId, upload |-> upload,
   fields |-> fields, isArray |-> TRUE]

SingleFile(r) == [r EXCEPT !.isArray = FALSE]

NoRequest == Request("none", "GET", Undefined, <<>>, NoFields)

\* the temporary files formidable creates in uploadDir for the parts of the
\* request of invocation h (formidable gives each a fresh name)
TmpFilesOf(h, upload) == {<<h, i>> : i \in 1..Len(upload)}

\* uploadedFile = Array.isArray(fileArray) ? fileArray[0] : fileArray, as
\* the position of the document among those sent, and the document
UploadedIndex(r) == IF r.isArray THEN 1 ELSE Len(r.upload)
uploadedFile(r) == r.upload[UploadedIndex(r)]

(***************************************************************************)
(* PythonAPIClient.processOCR on the worker's reply to POST /ocr/process.  *)
(***************************************************************************)
processOCR(reply) ==
  CASE reply.kind = "ok" /\ reply.body.success -> Returned(reply.body)
    [] reply.kind \in {"ok", "malformed"} ->
         Thrown(AssertionFailed("Invalid OCR response structure"), TRUE)
    [] OTHER -> Thrown(OrElse(reply.msg, "OCR processing failed"), TRUE)

\* mutant of ProcessingError: the catch block reports a generic code
ProcessingErrorGenericCode(message) ==
  ErrorResponse(500, OrElse(message, "Internal server error"), "INTERNAL_ERROR", TRUE)

\* the catch block of the process handler
ProcessingError(message) ==
  ErrorResponse(500, OrElse(message, "Internal server error"), "PROCESSING_ERROR", TRUE)

\* res.status(400).json({success: false, error: {message, code, details}, timestamp})
ValidationFailure(message, code, issues) ==
  [ErrorResponse(400, message, code, FALSE) EXCEPT !.details = issues]

(***************************************************************************)
(* lib/utils.ts sanitizeFilename, on the characters of the filename:       *)
(*   filename.replace(/[^a-z0-9.-]/gi, '_').replace(/_{2,}/g, '_')         *)
(*           .toLowerCase()                                                *)
(***************************************************************************)
UpperCase ==
  <<"A", "B", "C", "D", "E", "F", "G", "H", "I", "J", "K", "L", "M",
    "N", "O", "P", "Q", "R", "S", "T", "U", "V", "W", "X", "Y", "Z">>
LowerCase ==
  <<"a", "b", "c", "d", "e", "f", "g", "h", "i", "j", "k", "l", "m",
    "n", "o", "p", "q", "r", "s", "t", "u", "v", "w", "x", "y", "z">>

Range(seq) == {seq[i] : i \in 1..Len(seq)}

\* c is matched by [a-z0-9.-] under the i flag
InClass(c) == c \in Range(LowerCase) \cup Range(UpperCase) \cup Digits \cup {".", "-"}

\* .replace(/[^a-z0-9.-]/gi, '_')
ReplaceOutside(chars) ==
  [i \in 1..Len(chars) |-> IF InClass(chars[i]) THEN chars[i] ELSE "_"]

\* .replace(/_{2,}/g, '_'): every maximal run of underscores becomes one
RECURSIVE CollapseUnderscores(_)
CollapseUnderscores(chars) ==
  IF Len(chars) < 2 THEN chars
  ELSE IF chars[1] = "_" /\ chars[2] = "_" THEN CollapseUnderscores(Tail(chars))
  ELSE <<chars[1]>> \o CollapseUnderscores(Tail(chars))

\* String.prototype.toLowerCase on one character
toLowerCase(c) ==
  IF c \in Range(UpperCase)
  THEN LowerCase[CHOOSE i \in 1..Len(UpperCase) : UpperCase[i] = c]
  ELSE c

\* mutant of sanitizeFilename: repeated underscores are left in place
sanitizeFilenameNoCollapse(chars) ==
  [i \in 1..Len(chars) |-> toLowerCase(ReplaceOutside(chars)[i])]

sanitizeFilename(chars) ==
  LET collapsed == CollapseUnderscores(ReplaceOutside(chars))
  IN [i \in 1..Len(collapsed) |-> toLowerCase(collapsed[i])]

\* sanitizeFilename(uploadedFile.originalFilename || 'document')
DocumentChars == <<"d", "o", "c", "u", "m", "e", "n", "t">>
sanitizedFilename(chars) ==
  sanitizeFilename(IF chars = <<>> THEN DocumentChars ELSE chars)

(***************************************************************************)
(* The validation stage of the process handler as a function of the        *)
(* uploaded part and the form fields: the 400 response it sends, or        *)
(* NoResponse when both schemas accept; and the options it then            *)
(* serializes into the payload for the worker (ocrOptions.data).           *)
(***************************************************************************)
ValidationVerdict(part, fields) ==
  IF ~FileAccepted(part)
  THEN ValidationFailure("File validation failed", "INVALID_FILE", FileIssues(part))
  ELSE IF ~OptionsAccepted(fields)
  THEN ValidationFailure("Invalid OCR options", "INVALID_OPTIONS",
                         ocrRequestIssues(OptionsInput(fields)))
  ELSE NoResponse

NoOptions ==
  [pageRange |-> AbsentChars, maxOutputTokens |-> 0, includeImages |-> FALSE,
   includeHeadersFooters |-> FALSE, outputFormat |-> "none"]

ForwardedOptions(part, fields) ==
  IF ValidationVerdict(part, fields) = NoResponse
  THEN ocrRequestData(OptionsInput(fields)) ELSE NoOptions

(***************************************************************************)
(* Steps of a handler invocation h.                                        *)
(* hpc[h]: "idle", "received", then for the process route "parsed" (after  *)
(* await parseForm), "reading" (before await fs.readFile), "forwarding"    *)
(* (await pythonAPIClient.processOCR); for the query routes "awaitWorker"  *)
(* (await getJobStatus / getJobResult); finally "responded".               *)
(***************************************************************************)
Respond(h, resp) ==
  /\ response' = [response EXCEPT ![h] = resp]
  /\ hpc' = [hpc EXCEPT ![h] = "responded"]

\* what a request to the worker carries: for POST /ocr/process the
\* multipart payload (formData: file, options), nothing for a GET
Payload(blob, options) == [file |-> blob, options |-> options]
NoPayload == Payload(Part(Null, 0, Null), NoOptions)

\* formData.append('file', blob, sanitizedFilename);
\* formData.append('options', JSON.stringify(ocrOptions.data))
formData(r) == Payload(uploadedFile(r), ocrRequestData(OptionsInput(r.fields)))

\* mutant of SendToWorker: the request is sent a second time
SendToWorkerTwice(h, method, path) ==
  workerCalls' =
    [workerCalls EXCEPT ![h] =
       Append(Append(@, [method |-> method, path |-> path,
                         payload |-> IF method = "POST" THEN formData(req[h])
                                     ELSE NoPayload]),
              [method |-> method, path |-> path,
               payload |-> IF method = "POST" THEN formData(req[h])
                           ELSE NoPayload])]

\* mutant of SendToWorker: every request to the worker is sent as a POST
SendToWorkerAsPost(h, method, path) ==
  workerCalls' =
    [workerCalls EXCEPT ![h] =
       Append(@, [method |-> "POST", path |-> path,
                  payload |-> IF method = "POST" THEN formData(req[h])
                              ELSE NoPayload])]

SendToWorker(h, method, path) ==
  workerCalls' =
    [workerCalls EXCEPT ![h] =
       Append(@, [method |-> method, path |-> path,
                  payload |-> IF method = "POST" THEN formData(req[h])
                              ELSE NoPayload])]

Receive(h) ==
  /\ hpc[h] = "idle"
  /\ \E r \in {Request("submit", "POST", Undefined, u, NoFields)
                 : u \in Uploads}
          \cup {SingleFile(Request("submit", "POST", Undefined, u, NoFields))
                 : u \in {v \in Uploads : Len(v) > 1}}
          \cup {Request("submit", "POST", Undefined, <<ValidPart>>, f)
                 : f \in FieldSets}
          \cup {Request("submit", "GET", Undefined, <<>>, NoFields)}
          \cup {Request(k, "GET", j, <<>>, NoFields)
                 : k \in {"status", "result"}, j \in JobIdParams}
          \cup {Request(k, "POST", "1", <<>>, NoFields)
                 : k \in {"status", "result"}} :
       req' = [req EXCEPT ![h] = r]
  /\ hpc' = [hpc EXCEPT ![h] = "received"]
  /\ workerCalls' = [workerCalls EXCEPT ![h] = <<>>]
  /\ workerReply' = [workerReply EXCEPT ![h] = NoReply]
  /\ response' = [response EXCEPT ![h] = NoResponse]
  /\ UNCHANGED <<tmpFiles, jobs, pageVars, valVars>>

\* process handler: method check and await parseForm(req).  formidable
\* writes each part to uploadDir; a part larger than maxFileSize makes
\* form.parse fail, and formidable removes the file it was writing.
SubmitParse(h) ==
  /\ hpc[h] = "received"
  /\ req[h].kind = "submit"
  /\ IF req[h].method # "POST"
     THEN /\ Respond(h, MethodNotAllowed)
          /\ UNCHANGED tmpFiles
     ELSE IF \E i \in 1..Len(req[h].upload) : req[h].upload[i].size > MaxFileSize
     THEN /\ Respond(h, ProcessingError("options.maxFileSize exceeded"))
          /\ UNCHANGED tmpFiles
     ELSE /\ tmpFiles' = tmpFiles \cup TmpFilesOf(h, req[h].upload)
          /\ hpc' = [hpc EXCEPT ![h] = "parsed"]
          /\ UNCHANGED response
  /\ UNCHANGED <<req, workerCalls, workerReply, jobs, pageVars, valVars>>

\* mutant of Unlink: the handler empties the upload directory
UnlinkSweepsDirectory(h) == tmpFiles' = {}

\* fs.unlink(uploadedFile.filepath).catch(...): removes the file of the
\* document the handler worked on
Unlink(h) == tmpFiles' = tmpFiles \ {<<h, UploadedIndex(req[h])>>}

\* process handler: from the resolution of parseForm to await fs.readFile
SubmitValidate(h) ==
  /\ hpc[h] = "parsed"
  /\ IF req[h].upload = <<>>
     THEN /\ Respond(h, ProcessingError(AssertionFailed("No file uploaded")))
          /\ UNCHANGED tmpFiles
     ELSE IF ValidationVerdict(uploadedFile(req[h]), req[h].fields) # NoResponse
     THEN /\ Unlink(h)
          /\ Respond(h, ValidationVerdict(uploadedFile(req[h]), req[h].fields))
     ELSE /\ hpc' = [hpc EXCEPT ![h] = "reading"]
          /\ UNCHANGED <<response, tmpFiles>>
  /\ UNCHANGED <<req, workerCalls, workerReply, jobs, pageVars, valVars>>

\* process handler: await fs.readFile, which may throw, then the payload is
\* built and pythonAPIClient.processOCR(formData) posts it to the worker
SubmitRead(h) ==
  /\ hpc[h] = "reading"
  /\ \/ /\ SendToWorker(h, "POST", "process")
        /\ hpc' = [hpc EXCEPT ![h] = "forwarding"]
        /\ UNCHANGED response
     \/ /\ Respond(h, ProcessingError("EIO: i/o error, read"))
        /\ UNCHANGED workerCalls
  /\ UNCHANGED <<req, workerReply, tmpFiles, jobs, pageVars, valVars>>

\* the worker's replies to POST /ocr/process: acceptance as a pending job
\* under a fresh identifier, an acceptance body without job data, or failure
AcceptReply(j) == OkReply(Body(TRUE, JobRecord(j, "pending", NoMsg, NoResult), NoMsg, NoCode))
EmptyAcceptReply == OkReply(Body(TRUE, NullRecord, NoMsg, NoCode))

\* process handler: from the worker's reply to the response
SubmitForwarded(h) ==
  /\ hpc[h] = "forwarding"
  /\ \/ /\ NextJobId \in JobIds
        /\ jobs' = [jobs EXCEPT ![NextJobId] = RegistryEntry("pending", NoMsg, NoResult)]
        /\ workerReply' = [workerReply EXCEPT ![h] = AcceptReply(NextJobId)]
        /\ Unlink(h)
        /\ Respond(h, PassThrough(processOCR(AcceptReply(NextJobId)).body))
     \/ /\ \E reply \in FailureReplies \cup {EmptyAcceptReply} :
             /\ workerReply' = [workerReply EXCEPT ![h] = reply]
             /\ IF processOCR(reply).threw
                THEN /\ Respond(h, ProcessingError(processOCR(reply).message))
                     /\ UNCHANGED tmpFiles
                ELSE /\ Unlink(h)
                     /\ Respond(h, PassThrough(processOCR(reply).body))
        /\ UNCHANGED jobs
  /\ UNCHANGED <<req, workerCalls, pageVars, valVars>>

QueryHandler(kind, method, jobId, reply) ==
  IF kind = "status" THEN StatusHandler(method, jobId, reply)
  ELSE ResultHandler(method, jobId, reply)

WorkerQueryReplies(kind, jobId) ==
  IF kind = "status" THEN WorkerStatusReplies(jobId) ELSE WorkerResultReplies(jobId)

\* status / result handler up to its await of the worker: it responds at
\* once when it sends nothing, else the GET request is on its way
QueryStart(h) ==
  /\ hpc[h] = "received"
  /\ req[h].kind \in {"status", "result"}
  /\ LET r == QueryHandler(req[h].kind, req[h].method, req[h].jobId, MalformedReply)
     IN IF ~r.sent
        THEN /\ Respond(h, r.resp)
             /\ UNCHANGED workerCalls
        ELSE /\ SendToWorker(h, "GET", req[h].kind)
             /\ hpc' = [hpc EXCEPT ![h] = "awaitWorker"]
             /\ UNCHANGED response
  /\ UNCHANGED <<req, workerReply, tmpFiles, jobs, pageVars, valVars>>

\* status / result handler from the worker's reply to the response
QueryReply(h) ==
  /\ hpc[h] = "awaitWorker"
  /\ \E reply \in WorkerQueryReplies(req[h].kind, req[h].jobId) :
       /\ workerReply' = [workerReply EXCEPT ![h] = reply]
       /\ Respond(h, QueryHandler(req[h].kind, req[h].method, req[h].jobId, reply).resp)
  /\ UNCHANGED <<req, workerCalls, tmpFiles, jobs, pageVars, valVars>>

ServerInit ==
  /\ req = [h \in Handlers |-> NoRequest]
  /\ hpc = [h \in Handlers |-> "idle"]
  /\ workerCalls = [h \in Handlers |-> <<>>]
  /\ workerReply = [h \in Handlers |-> NoReply]
  /\ response = [h \in Handlers |-> NoResponse]
  /\ tmpFiles = {}

(***************************************************************************)
(* The validation layer applied to one input (ValidationSpec): the file    *)
(* validation and option validation of the process handler, and            *)
(* sanitizeFilename, each on inputs drawn from the sets below.  A          *)
(* behaviour applies one of them to one input.                             *)
(***************************************************************************)
\* longest pageRange string and longest filename drawn
MaxRangeLen == 4
MaxNameLen == 3

Strings(alphabet, n) == UNION {[1..k -> alphabet] : k \in 0..n}

RangeAlphabet == {"1", "5", "-", ",", "a"}
NameAlphabet == {"a", "Z", "7", ".", "-", "_", " "}

\* upload metadata: originalFilename, size, mimetype
PartProbes ==
  {Part(name, size, type) :
     name \in {"Scan 1.PDF", "", Null},
     size \in {0, 1, MaxFileSize, MaxFileSize + 1},
     type \in AllowedFileTypes \cup {"text/plain", "IMAGE/PNG", "", Null}}

\* values of the maxOutputTokens field
TokenProbes ==
  { <<>>, <<"0">>, <<"1">>, <<"8", "1", "9", "2">>, <<"3", "2", "7", "6", "8">>,
    <<"3", "2", "7", "6", "9">>, <<"-", "5">>, <<"+", "7">>, <<"a", "b", "c">>,
    <<"1", "2", "a", "b", "c">>, <<"1", ".", "5">> }

FlagProbes ==
  {NoString, Field("string", "true"), Field("string", "false"),
   Field("string", "yes"), Field("array", "true")}

FormatProbes ==
  {NoString} \cup
  {Field("string", f) : f \in OutputFormats \cup {"", "xml", "JSON"}}

\* form fields: one group of options varies, the others are absent
FieldProbes ==
  {Fields(Field(t, r), NoChars, NoString, NoString, NoString) :
     t \in {"string", "array"}, r \in Strings(RangeAlphabet, MaxRangeLen)}
  \cup {Fields(NoChars, Field(t, m), NoString, NoString, NoString) :
          t \in {"string", "array"}, m \in TokenProbes}
  \cup {Fields(NoChars, NoChars, i, f, NoString) : i \in FlagProbes, f \in FlagProbes}
  \cup {Fields(NoChars, NoChars, NoString, NoString, o) : o \in FormatProbes}

Probe(kind, part, fields, filename) ==
  [kind |-> kind, part |-> part, fields |-> fields, filename |-> filename]

Verdict(resp, options, filename) ==
  [resp |-> resp, options |-> options, filename |-> filename]

\* process handler, file validation: fileUploadSchema.safeParse on the
\* metadata of the uploaded part
ValidateFile ==
  /\ probe.kind = "none"
  /\ \E part \in PartProbes :
       /\ probe' = Probe("file", part, NoFields, <<>>)
       /\ verdict' = Verdict(ValidationVerdict(part, NoFields),
                             ForwardedOptions(part, NoFields), <<>>)
  /\ UNCHANGED <<pageVars, jobs, serverVars>>

\* process handler, option parsing and validation: ocrRequestSchema.safeParse
\* on the form fields of a request whose file is valid
ValidateOptions ==
  /\ probe.kind = "none"
  /\ \E fields \in FieldProbes :
       /\ probe' = Probe("options", ValidPart, fields, <<>>)
       /\ verdict' = Verdict(ValidationVerdict(ValidPart, fields),
                             ForwardedOptions(ValidPart, fields), <<>>)
  /\ UNCHANGED <<pageVars, jobs, serverVars>>

\* process handler: sanitizeFilename(uploadedFile.originalFilename || 'document')
SanitizeName ==
  /\ probe.kind = "none"
  /\ \E name \in Strings(NameAlphabet, MaxNameLen) :
       /\ probe' = Probe("filename", ValidPart, NoFields, name)
       /\ verdict' = Verdict(NoResponse, NoOptions, sanitizedFilename(name))
  /\ UNCHANGED <<pageVars, jobs, serverVars>>

ValidationInit ==
  /\ probe = Probe("none", ValidPart, NoFields, <<>>)
  /\ verdict = Verdict(NoResponse, NoOptions, <<>>)

(***************************************************************************)
(* The page component Home.                                                *)
(* pc: "idle"        no request or timer of the page is pending            *)
(*     "submitting"  handleSubmit awaits fetch('/api/ocr/process')         *)
(*     "checking"    poll awaits fetch('/api/ocr/status/<jobId>')          *)
(*     "fetching"    poll awaits fetch('/api/ocr/result/<jobId>')          *)
(*     "waiting"     setTimeout(poll, 5000) is scheduled                   *)
(*     "Completed", "Failed", "TimedOut", "Errored": poll has returned     *)
(*       through its completed branch, its failed branch, its attempts     *)
(*       branch or its catch block.                                        *)
(* request is the fetch the page has issued and not yet seen resolved;     *)
(* outcome is what that fetch resolved to, until the awaiting code runs.   *)
(***************************************************************************)
PollActive == {"checking", "fetching", "waiting"}
PollTerminal == {"Completed", "Failed", "TimedOut", "Errored"}

TimeoutMsg == "Processing timeout - please check back later"

Fetch(path, jobId) == [path |-> path, jobId |-> jobId]
NoFetch == Fetch("none", Null)

\* what a fetch + response.json() of the page yields: a rejection with a
\* message, or the envelope a route handler sent
Rejected(m) == [state |-> "rejected", message |-> m, resp |-> NoResponse]
Delivered(resp) == [state |-> "delivered", message |-> NoMsg, resp |-> resp]
NoOutcome == [state |-> "none", message |-> NoMsg, resp |-> NoResponse]

StatusOutcomes(j) ==
  {Rejected(NetMsg)} \cup
  {Delivered(StatusHandler("GET", j, reply).resp) : reply \in WorkerStatusReplies(j)}

ResultOutcomes(j) ==
  {Rejected(NetMsg)} \cup
  {Delivered(ResultHandler("GET", j, reply).resp) : reply \in WorkerResultReplies(j)}

\* a fetch failed: it rejected, or its envelope has success=false
Failed(out) == out.state = "rejected" \/ ~out.resp.success

\* the message thrown for a failed fetch: err.message of the rejection, or
\* data.error?.message || fallback
FailureMessage(out, fallback) ==
  IF out.state = "rejected" THEN out.message ELSE OrElse(out.resp.message, fallback)

\* handleFileSelect(selectedFile); the FileUpload component calls it with a
\* dropped file when none is selected and with null from its remove button
handleFileSelect(selectedFile) ==
  /\ IF selectedFile = NoFile THEN file # NoFile ELSE file = NoFile
  /\ file' = selectedFile
  /\ error' = Null
  /\ jobStatus' = NullRecord
  /\ cancelled' = (cancelled \/ pc \in PollActive)
  /\ UNCHANGED <<isProcessing, pc, attempts, pollJobId, timer, lastStored,
                 request, outcome, statusChecks, resultFetches, submits, jobs,
                 serverVars, valVars>>

\* handleSubmit up to its await of the process request; the button is
\* disabled while !file || isProcessing
handleSubmit ==
  /\ file # NoFile
  /\ ~isProcessing
  /\ submits < MaxSubmits
  /\ submits' = submits + 1
  /\ isProcessing' = TRUE
  /\ error' = Null
  /\ jobStatus' = NullRecord
  /\ request' = Fetch("process", Null)
  /\ outcome' = NoOutcome
  /\ pc' = "submitting"
  /\ attempts' = 0
  /\ pollJobId' = Null
  /\ statusChecks' = 0
  /\ resultFetches' = 0
  /\ cancelled' = FALSE
  /\ lastStored' = Null
  /\ UNCHANGED <<file, timer, jobs, serverVars, valVars>>

\* responses of the process route that report a failure
SubmitFailures ==
  { ValidationFailure("File validation failed", "INVALID_FILE", {}),
    ValidationFailure("Invalid OCR options", "INVALID_OPTIONS", {}),
    ProcessingError("OCR processing failed"),
    ProcessingError(NoMsg) }

\* the process request resolves: the fetch rejects, the route reports a
\* failure, the route passes on an acceptance of the worker that carries no
\* job data, or the worker accepted the submission as a new pending job and
\* the route passes its reply on
SubmitArrives ==
  /\ pc = "submitting"
  /\ outcome = NoOutcome
  /\ \/ /\ outcome' \in {Rejected(NetMsg)} \cup {Delivered(r) : r \in SubmitFailures}
                        \cup {Delivered(PassThrough(processOCR(EmptyAcceptReply).body))}
        /\ UNCHANGED jobs
     \/ /\ NextJobId \in JobIds
        /\ jobs' = [jobs EXCEPT ![NextJobId] = RegistryEntry("pending", NoMsg, NoResult)]
        /\ outcome' = Delivered(PassThrough(processOCR(AcceptReply(NextJobId)).body))
  /\ request' = NoFetch
  /\ UNCHANGED <<file, jobStatus, isProcessing, error, pc, attempts, pollJobId,
                 timer, lastStored, statusChecks, resultFetches, cancelled,
                 submits, serverVars, valVars>>

\* poll() up to its first await: it issues a status check for jobId
IssueStatusCheck(jobId) ==
  /\ request' = Fetch("status", jobId)
  /\ statusChecks' = statusChecks + 1
  /\ pc' = "checking"

\* what handleSubmit throws into its catch block: the rejection of the
\* fetch, data.error?.message || 'Processing failed' when success is false,
\* or the TypeError of data.data.jobId when the envelope has no data
NoDataMsg == "Cannot read properties of undefined (reading 'jobId')"

SubmitThrows(out) == Failed(out) \/ out.resp.data = NullRecord

SubmitError(out) ==
  IF Failed(out) THEN FailureMessage(out, "Processing failed") ELSE NoDataMsg

\* mutant of SessionJob: the session polls a fixed job
SessionJobFixed(out) == "1"

\* const jobId = data.data.jobId
SessionJob(out) == out.resp.data.jobId

\* handleSubmit after its await: on failure its catch block; on success it
\* stores {jobId, status: 'pending'} and calls pollJobStatus(jobId)
SubmitResolved ==
  /\ pc = "submitting"
  /\ outcome # NoOutcome
  /\ outcome' = NoOutcome
  /\ IF SubmitThrows(outcome)
     THEN /\ error' = SubmitError(outcome)
          /\ isProcessing' = FALSE
          /\ pc' = "idle"
          /\ UNCHANGED <<jobStatus, attempts, pollJobId, request, statusChecks,
                         lastStored>>
     ELSE /\ jobStatus' = JobRecord(SessionJob(outcome), "pending", NoMsg, NoResult)
          /\ lastStored' = "pending"
          /\ pollJobId' = SessionJob(outcome)
          /\ attempts' = 0
          /\ IssueStatusCheck(SessionJob(outcome))
          /\ UNCHANGED <<error, isProcessing>>
  /\ UNCHANGED <<file, timer, resultFetches, cancelled, submits, jobs, serverVars,
                 valVars>>

\* a pending status check or result fetch of the page resolves
FetchArrives ==
  /\ pc \in {"checking", "fetching"}
  /\ outcome = NoOutcome
  /\ outcome' \in IF request.path = "status" THEN StatusOutcomes(request.jobId)
                  ELSE ResultOutcomes(request.jobId)
  /\ request' = NoFetch
  /\ UNCHANGED <<file, jobStatus, isProcessing, error, pc, attempts, pollJobId,
                 timer, lastStored, statusChecks, resultFetches, cancelled,
                 submits, jobs, serverVars, valVars>>

\* mutant of PollCatch: the error is swallowed and the check is retried
PollCatchRetries(m) ==
  /\ pc' = "waiting"
  /\ UNCHANGED <<error, isProcessing>>

\* mutant of PollCatch: the catch block does not clear isProcessing
PollCatchKeepsProcessing(m) ==
  /\ error' = m
  /\ pc' = "Errored"
  /\ UNCHANGED isProcessing

\* the catch block of poll
PollCatch(m) ==
  /\ error' = m
  /\ isProcessing' = FALSE
  /\ pc' = "Errored"

\* mutant of OnCompleted: the completed branch returns without fetching the
\* full result
OnCompletedSkipsFetch ==
  /\ isProcessing' = FALSE
  /\ pc' = "Completed"
  /\ UNCHANGED <<error, attempts, resultFetches, request>>

\* mutant of OnCompleted: isProcessing is cleared before the result is
\* fetched
OnCompletedClearsEarly ==
  /\ request' = Fetch("result", pollJobId)
  /\ resultFetches' = resultFetches + 1
  /\ pc' = "fetching"
  /\ isProcessing' = FALSE
  /\ UNCHANGED <<error, attempts>>

\* poll: status === 'completed': the full result is fetched
OnCompleted ==
  /\ request' = Fetch("result", pollJobId)
  /\ resultFetches' = resultFetches + 1
  /\ pc' = "fetching"
  /\ UNCHANGED <<error, isProcessing, attempts>>

\* mutant of OnFailed: the failed branch lacks its return and falls through
\* to the scheduling of the next poll
OnFailedRetries(data) ==
  /\ error' = OrElse(data.error, "Processing failed")
  /\ isProcessing' = FALSE
  /\ attempts' = attempts + 1
  /\ pc' = "waiting"
  /\ UNCHANGED <<resultFetches, request>>

\* poll: status === 'failed': the error is shown and poll returns
OnFailed(data) ==
  /\ error' = OrElse(data.error, "Processing failed")
  /\ isProcessing' = FALSE
  /\ pc' = "Failed"
  /\ UNCHANGED <<attempts, resultFetches, request>>

\* mutant of MayPollAgain: the budget is one attempt larger
MayPollAgainOneMore(a) == a < maxAttempts + 1

\* mutant of MayPollAgain: off by one
MayPollAgainOffByOne(a) == a <= maxAttempts

\* attempts < maxAttempts, evaluated after attempts++
MayPollAgain(a) == a < maxAttempts

\* mutant of OnUnfinished: exhausting the attempts is reported as a failure
\* of the job
OnUnfinishedTimeoutAsFailed ==
  /\ attempts' = attempts + 1
  /\ IF MayPollAgain(attempts')
     THEN /\ pc' = "waiting"
          /\ UNCHANGED <<error, isProcessing>>
     ELSE /\ error' = "Processing failed"
          /\ isProcessing' = FALSE
          /\ pc' = "Failed"
  /\ UNCHANGED <<resultFetches, request>>

\* poll: any other status: attempts++, then schedule the next poll or give up
OnUnfinished ==
  /\ attempts' = attempts + 1
  /\ IF MayPollAgain(attempts')
     THEN /\ pc' = "waiting"
          /\ UNCHANGED <<error, isProcessing>>
     ELSE /\ error' = TimeoutMsg
          /\ isProcessing' = FALSE
          /\ pc' = "TimedOut"
  /\ UNCHANGED <<resultFetches, request>>

\* setTimeout(poll, 5000)
PollInterval == 5000
NoTimer == 0

\* mutant of PollDelay: the wait grows with the attempt number
PollDelayBackoff(a) == PollInterval * a

\* the delay poll passes to setTimeout after attempt number a
PollDelay(a) == PollInterval

\* poll, from the resolution of the status fetch to its next await or return
PollStatus ==
  /\ pc = "checking"
  /\ outcome # NoOutcome
  /\ outcome' = NoOutcome
  /\ IF Failed(outcome)
     THEN /\ PollCatch(FailureMessage(outcome, "Failed to check status"))
          /\ UNCHANGED <<jobStatus, lastStored, attempts, resultFetches, request>>
     ELSE /\ jobStatus' = outcome.resp.data
          /\ lastStored' = outcome.resp.data.status
          /\ CASE outcome.resp.data.status = "completed" -> OnCompleted
               [] outcome.resp.data.status = "failed" -> OnFailed(outcome.resp.data)
               [] OTHER -> OnUnfinished
  /\ timer' = IF pc' = "waiting" THEN PollDelay(attempts') ELSE NoTimer
  /\ UNCHANGED <<file, pollJobId, statusChecks, cancelled, submits, jobs,
                 serverVars, valVars>>

\* the timer set by setTimeout(poll, 5000) fires: poll issues a status check
PollTimer ==
  /\ pc = "waiting"
  /\ timer' = NoTimer
  /\ IssueStatusCheck(pollJobId)
  /\ UNCHANGED <<file, jobStatus, lastStored, isProcessing, error, attempts,
                 pollJobId, outcome, resultFetches, cancelled, submits, jobs,
                 serverVars, valVars>>

\* mutant of StoreResult: the record of the result fetch is stored without
\* looking at its success flag
StoreResultUnguarded(resp) ==
  /\ jobStatus' = resp.data
  /\ lastStored' = resp.data.status

\* mutant of StoreResult: the record of the result fetch is never stored
StoreResultNever(resp) == UNCHANGED <<jobStatus, lastStored>>

\* if (resultData.success) setJobStatus(resultData.data)
StoreResult(resp) ==
  IF resp.success
  THEN /\ jobStatus' = resp.data
       /\ lastStored' = resp.data.status
  ELSE UNCHANGED <<jobStatus, lastStored>>

\* poll, from the resolution of the result fetch to its return
PollResult ==
  /\ pc = "fetching"
  /\ outcome # NoOutcome
  /\ outcome' = NoOutcome
  /\ IF outcome.state = "rejected"
     THEN /\ PollCatch(outcome.message)
          /\ UNCHANGED <<jobStatus, lastStored>>
     ELSE /\ StoreResult(outcome.resp)
          /\ isProcessing' = FALSE
          /\ pc' = "Completed"
          /\ UNCHANGED error
  /\ UNCHANGED <<file, attempts, pollJobId, timer, request, statusChecks,
                 resultFetches, cancelled, submits, jobs, serverVars, valVars>>

PageInit ==
  /\ file = NoFile
  /\ jobStatus = NullRecord
  /\ isProcessing = FALSE
  /\ error = Null
  /\ pc = "idle"
  /\ attempts = 0
  /\ pollJobId = Null
  /\ timer = NoTimer
  /\ lastStored = Null
  /\ request = NoFetch
  /\ outcome = NoOutcome
  /\ statusChecks = 0
  /\ resultFetches = 0
  /\ cancelled = FALSE
  /\ submits = 0

(***************************************************************************)
(* Specifications.                                                         *)
(***************************************************************************)
Init ==
  /\ PageInit
  /\ ServerInit
  /\ ValidationInit
  /\ jobs = [j \in AllJobs |-> AbsentEntry]

\* the page with its poll loop, against the routes and the worker
Next ==
  \/ \E f \in Files \cup {NoFile} : handleFileSelect(f)
  \/ handleSubmit
  \/ SubmitArrives
  \/ SubmitResolved
  \/ FetchArrives
  \/ PollStatus
  \/ PollTimer
  \/ PollResult
  \/ Worker

Spec == Init /\ [][Next]_vars

\* the page under the scheduling the browser provides: a fetch that was
\* issued resolves or rejects, a resolved promise's continuation runs, and
\* a timer that was set fires; MaxSessions submissions are followed
MaxSessions == 1

FairNext ==
  \/ \E f \in Files \cup {NoFile} : handleFileSelect(f)
  \/ (submits < MaxSessions /\ handleSubmit)
  \/ SubmitArrives
  \/ SubmitResolved
  \/ FetchArrives
  \/ PollStatus
  \/ PollTimer
  \/ PollResult
  \/ Worker

FairSpec ==
  /\ Init /\ [][FairNext]_vars
  /\ WF_vars(SubmitArrives) /\ WF_vars(SubmitResolved)
  /\ WF_vars(FetchArrives)
  /\ WF_vars(PollStatus) /\ WF_vars(PollResult)
  /\ WF_vars(PollTimer)

\* the route handlers, against the worker
ServerNext ==
  \/ \E h \in Handlers :
       \/ Receive(h)
       \/ SubmitParse(h)
       \/ SubmitValidate(h)
       \/ SubmitRead(h)
       \/ SubmitForwarded(h)
       \/ QueryStart(h)
       \/ QueryReply(h)
  \/ Worker

\* the route handlers may start with a job in the worker's registry that
\* an earlier submission left there, already finished
FinishedEntries ==
  {RegistryEntry("completed", NoMsg, Content)}
  \cup {RegistryEntry("failed", e, NoResult) : e \in JobErrors}

ServerStart ==
  /\ PageInit
  /\ ServerInit
  /\ ValidationInit
  /\ \E e \in FinishedEntries \cup {AbsentEntry} :
       jobs = [j \in AllJobs |-> IF j = EarlierJob THEN e ELSE AbsentEntry]

ServerSpec == ServerStart /\ [][ServerNext]_vars

\* the validation layer on one input
ValidationNext ==
  \/ ValidateFile
  \/ ValidateOptions
  \/ SanitizeName

ValidationSpec == Init /\ [][ValidationNext]_vars

(***************************************************************************)
(* Properties of the poll loop (checked under Spec).                       *)
(***************************************************************************)
\* the step in which poll handles the resolved status check
PollStatusStep == pc = "checking" /\ outcome # NoOutcome /\ outcome' = NoOutcome

\* that step, when the check returned a job record with status st
Observes(st) ==
  PollStatusStep /\ ~Failed(outcome) /\ outcome.resp.data.status = st

\* the step issues no status check and no result fetch
NoFetchIssued ==
  /\ statusChecks' = statusChecks
  /\ resultFetches' = resultFetches
  /\ request' \in {request, NoFetch}

\* C1: a poll session whose status checks all succeed and never return
\* completed or failed goes on to the next check while fewer than 60 checks
\* were issued; on the 60th it stops, shows the timeout error and clears
\* isProcessing; a timed-out session has issued exactly 60 status checks,
\* no result fetch, and issues nothing further.
C1_TimeoutAfterBudget ==
  [][ /\ (PollStatusStep /\ ~Failed(outcome)
            /\ outcome.resp.data.status \notin Terminal
          => IF statusChecks < maxAttempts
             THEN pc' = "waiting" /\ isProcessing' /\ error' = error
             ELSE pc' = "TimedOut" /\ error' = TimeoutMsg /\ ~isProcessing')
      /\ (pc' = "TimedOut"
          => statusChecks' = maxAttempts /\ resultFetches' = 0
             /\ request' = NoFetch /\ ~isProcessing')
      /\ (pc = "TimedOut" /\ pc' = "TimedOut" => NoFetchIssued) ]_vars

C1_Witness ==
  pc = "TimedOut" /\ statusChecks = maxAttempts /\ error = TimeoutMsg

\* C2: when a status check returns status=completed the poller issues one
\* fetch of the result endpoint for the polled jobId and stays processing;
\* the Completed state is entered only from that fetch, with exactly one
\* result fetch issued and isProcessing false; from the completed
\* observation on, no status check is issued.
C2_OneResultFetchThenCompleted ==
  [][ /\ (Observes("completed")
          => /\ pc' = "fetching"
             /\ request' = Fetch("result", pollJobId)
             /\ resultFetches' = resultFetches + 1
             /\ statusChecks' = statusChecks
             /\ isProcessing')
      /\ (pc' = "Completed"
          => /\ pc \in {"fetching", "Completed"}
             /\ resultFetches' = 1
             /\ request' = NoFetch
             /\ ~isProcessing')
      /\ (pc \in {"fetching", "Completed"} /\ pc' # "submitting"
          => /\ pc' \in {"fetching", "Completed", "Errored"}
             /\ statusChecks' = statusChecks
             /\ resultFetches' = resultFetches) ]_vars

C2_Witness ==
  pc = "Completed" /\ resultFetches = 1 /\ jobStatus.result = Content

\* C3: when a status check returns status=failed the poller stops in that
\* step: it shows the job's error message (or 'Processing failed' when the
\* record carries none), clears isProcessing, and issues no further status
\* check and never a result fetch.
C3_FailedStopsWithoutResultFetch ==
  [][ /\ (Observes("failed")
          => /\ pc' = "Failed"
             /\ error' = OrElse(outcome.resp.data.error, "Processing failed")
             /\ ~isProcessing'
             /\ request' = NoFetch
             /\ NoFetchIssued)
      /\ (pc' = "Failed" => resultFetches' = 0 /\ request' = NoFetch)
      /\ (pc = "Failed" /\ pc' = "Failed" => NoFetchIssued) ]_vars

C3_Witness ==
  pc = "Failed" /\ error = "corrupt document" /\ resultFetches = 0
  /\ jobStatus.status = "failed"

\* C4: when a status check fails (the fetch rejects or the envelope has
\* success=false) poll ends in that step through its catch block: the error
\* message is shown, isProcessing is cleared, nothing is scheduled or
\* fetched, and the session issues nothing afterwards.
C4_FailedCheckEndsPolling ==
  [][ /\ (PollStatusStep /\ Failed(outcome)
          => /\ pc' = "Errored"
             /\ error' = FailureMessage(outcome, "Failed to check status")
             /\ error' \notin {Null, NoMsg}
             /\ ~isProcessing'
             /\ request' = NoFetch
             /\ NoFetchIssued)
      /\ (pc = "Errored" /\ pc' = "Errored" => NoFetchIssued /\ request' = NoFetch) ]_vars

C4_Witness ==
  pc = "Errored" /\ error = "Failed to check status" /\ resultFetches = 0
  /\ statusChecks >= 1

\* C5: after the caller cancels a running poll session (a file is selected
\* or removed while it runs), the session issues no further status check or
\* result fetch.
C5_NoFetchAfterCancel ==
  [][ cancelled /\ cancelled'
      => statusChecks' = statusChecks /\ resultFetches' = resultFetches ]_vars

(***************************************************************************)
(* Properties of the route handlers (checked under ServerSpec).            *)
(***************************************************************************)
Responded(h) == hpc[h] = "responded"

\* invocation h handles a POST to the process route
IsSubmit(h) == req[h].kind = "submit" /\ req[h].method = "POST"

\* invocation h handles a GET to the status or the result route
IsQuery(h) == req[h].kind \in {"status", "result"} /\ req[h].method = "GET"

\* the temporary files of invocation h still in the upload directory
Leftover(h) == tmpFiles \cap TmpFilesOf(h, req[h].upload)

\* C6: on every exit path of the submit handler, every temporary file
\* created for the request's uploaded bytes has been released when the
\* response is sent.
C6_TempFilesReleasedOnEveryExit ==
  \A h \in Handlers : Responded(h) /\ IsSubmit(h) => Leftover(h) = {}

\* C7: for every uploaded file larger than the configured maximum the
\* submit endpoint responds with code INVALID_FILE and leaves no temporary
\* file behind.
C7_OversizeIsInvalidFile ==
  \A h \in Handlers :
    Responded(h) /\ IsSubmit(h) /\ req[h].upload # <<>>
      /\ uploadedFile(req[h]).size > MaxFileSize
    => response[h].code = "INVALID_FILE" /\ ~response[h].success /\ Leftover(h) = {}

\* the jobs the worker has created
KnownJobs == {j \in JobIds : jobs[j].status # Absent}

\* the submissions answered with the worker's acceptance of a job
AcceptedSubmissions ==
  {h \in Handlers : Responded(h) /\ IsSubmit(h) /\ response[h].success
                    /\ response[h].data.jobId \in KnownJobs}

\* C8: the submit handler sends a request to the worker only for a
\* submission whose file and options both passed validation; a submission
\* rejected with INVALID_FILE or INVALID_OPTIONS has sent nothing, and the
\* worker holds exactly the jobs of the accepted (valid) submissions.
C8_InvalidNeverReachesWorker ==
  /\ \A h \in Handlers :
       /\ (req[h].kind = "submit" /\ workerCalls[h] # <<>>
           => /\ req[h].upload # <<>>
              /\ FileIssues(uploadedFile(req[h])) = {}
              /\ ocrRequestIssues(OptionsInput(req[h].fields)) = {})
       /\ (response[h].code \in {"INVALID_FILE", "INVALID_OPTIONS"}
           => workerCalls[h] = <<>>)
  /\ Cardinality(KnownJobs) = Cardinality(AcceptedSubmissions)
  /\ \A h \in AcceptedSubmissions :
       FileIssues(uploadedFile(req[h])) = {}
       /\ ocrRequestIssues(OptionsInput(req[h].fields)) = {}

C8_Witness ==
  \E h1, h2 \in Handlers :
    /\ Responded(h1) /\ response[h1].code = "INVALID_FILE"
    /\ IsSubmit(h2) /\ workerCalls[h2] # <<>> /\ h2 \in AcceptedSubmissions

\* C9: for an empty or non-string jobId the status and result handlers
\* answer with a failure and send no HTTP request to the worker.
C9_BadJobIdSendsNothing ==
  \A h \in Handlers :
    req[h].kind \in {"status", "result"} /\ ~IsNonEmptyString(req[h].jobId)
    => /\ workerCalls[h] = <<>>
       /\ hpc[h] \in {"received", "responded"}
       /\ (Responded(h) => ~response[h].success)

C9_Witness ==
  \E h1, h2 \in Handlers :
    /\ Responded(h1) /\ req[h1].kind = "status" /\ req[h1].method = "GET"
    /\ req[h1].jobId = ArrayValue /\ workerCalls[h1] = <<>>
    /\ Responded(h2) /\ req[h2].kind = "result" /\ req[h2].method = "GET"
    /\ req[h2].jobId = "" /\ workerCalls[h2] = <<>>

\* the response to a GET query whose jobId is empty or not a string
BadJobIdResponses ==
  {h \in Handlers : Responded(h) /\ IsQuery(h) /\ ~IsNonEmptyString(req[h].jobId)}

UnfinishedResultQueries ==
  {h \in Handlers : /\ Responded(h) /\ req[h].kind = "result" /\ req[h].method = "GET"
                    /\ workerReply[h].kind = "ok" /\ workerReply[h].body.success
                    /\ workerReply[h].body.data.status \in {"pending", "processing"}}

\* what the result handler answers for job j once it is completed
CompletedResultResponse(j) ==
  ResultHandler("GET", j,
    OkReply(Body(TRUE, JobRecord(j, "completed", NoMsg, Content), NoMsg, NoCode))).resp

WorkerCallFailed(h) == workerReply[h].kind \in {"malformed", "axiosError"}

\* C12: a failed worker call in the status handler yields HTTP 500 with
\* success=false and code STATUS_CHECK_ERROR, in the result handler with
\* code RESULT_FETCH_ERROR; no response of the status handler carries
\* RESULT_FETCH_ERROR and none of the result handler STATUS_CHECK_ERROR.
C12_WorkerFailureHasEndpointCode ==
  \A h \in Handlers :
    /\ (Responded(h) /\ IsQuery(h) /\ WorkerCallFailed(h)
        => /\ ~response[h].success
           /\ response[h].http = 500
           /\ response[h].data = NullRecord
           /\ response[h].code = IF req[h].kind = "status" THEN "STATUS_CHECK_ERROR"
                                 ELSE "RESULT_FETCH_ERROR")
    /\ (req[h].kind = "status" => response[h].code # "RESULT_FETCH_ERROR")
    /\ (req[h].kind = "result" => response[h].code # "STATUS_CHECK_ERROR")

C12_Witness ==
  \E h1, h2 \in Handlers :
    /\ Responded(h1) /\ req[h1].kind = "status" /\ workerReply[h1].kind = "axiosError"
    /\ response[h1].code = "STATUS_CHECK_ERROR"
    /\ Responded(h2) /\ req[h2].kind = "result" /\ workerReply[h2].kind = "malformed"
    /\ response[h2].code = "RESULT_FETCH_ERROR"

\* the worker's reply is an acceptance: a 2xx body with success true and a
\* jobId
ProperAcceptance(reply) ==
  reply.kind = "ok" /\ reply.body.success /\ reply.body.data.jobId # Null

\* C13: when the worker is unreachable or its acceptance reply is malformed
\* (no body, success not true, or no jobId) the submit handler responds
\* with a failure of code PROCESSING_ERROR; a success response of submit
\* carries a jobId.
C13_MalformedAcceptanceIsProcessingError ==
  \A h \in Handlers :
    Responded(h) /\ IsSubmit(h)
    => /\ (workerCalls[h] # <<>> /\ ~ProperAcceptance(workerReply[h])
           => ~response[h].success /\ response[h].code = "PROCESSING_ERROR")
       /\ (response[h].success => response[h].data.jobId \in JobIds)

\* the envelope carries a data object / an error object
HasData(resp) == resp.data # NullRecord
HasError(resp) == resp.message # NoMsg \/ resp.code # NoCode

\* C14: every response of the submit, status and result endpoints carries
\* success, exactly one of data and error, a requestId and a timestamp.
C14_UniformEnvelope ==
  \A h \in Handlers :
    Responded(h)
    => /\ response[h].requestId
       /\ response[h].timestamp
       /\ (HasData(response[h]) /= HasError(response[h]))

\* the failure codes documented for the endpoint of invocation h
DocumentedCodes(h) ==
  CASE req[h].kind = "submit" -> {"INVALID_FILE", "INVALID_OPTIONS", "PROCESSING_ERROR"}
    [] req[h].kind = "status" -> {"STATUS_CHECK_ERROR"}
    [] OTHER -> {"RESULT_FETCH_ERROR"}

\* the responses that report a failure
FailureResponses == {h \in Handlers : Responded(h) /\ ~response[h].success}

\* C15 as stated: every failure response carries a code of its endpoint's
\* documented set, whatever the request and whatever the worker replies.
C15_FailureCodeIsDocumented ==
  \A h \in FailureResponses : response[h].code \in DocumentedCodes(h)

\* the request of invocation h uses the method of its endpoint
RightMethod(h) == IsSubmit(h) \/ IsQuery(h)

\* C15 as amended: a request with another method than the endpoint's is
\* answered by HTTP 405 with code METHOD_NOT_ALLOWED; every other failure
\* response that the handler builds itself (HTTP 400 or 500) carries a code
\* of its endpoint's documented set; a failure with HTTP 200 is the
\* worker's own body (success=false), passed on with the worker's error.
C15_FailureCodeByOrigin ==
  \A h \in FailureResponses :
    /\ (~RightMethod(h) <=> response[h].http = 405)
    /\ (response[h].http = 405 => response[h].code = "METHOD_NOT_ALLOWED")
    /\ (response[h].http \in {400, 500} => response[h].code \in DocumentedCodes(h))
    /\ (response[h].http \notin {400, 405, 500}
        => /\ response[h].http = 200
           /\ IsQuery(h)
           /\ workerReply[h].kind = "ok"
           /\ response[h] = PassThrough(workerReply[h].body))

C15_Witness ==
  \E h1, h2 \in FailureResponses :
    /\ IsSubmit(h1) /\ workerReply[h1].kind = "axiosError"
    /\ response[h1].code = "PROCESSING_ERROR"
    /\ req[h2].kind = "result" /\ req[h2].method = "POST"
    /\ response[h2].code = "METHOD_NOT_ALLOWED"

(***************************************************************************)
(* Properties of the validation layer (checked under ValidationSpec).      *)
(***************************************************************************)
\* the probe was accepted by both schemas / rejected with the given code
Accepted == verdict.resp = NoResponse
RejectedWith(code) ==
  /\ verdict.resp.http = 400
  /\ ~verdict.resp.success
  /\ verdict.resp.code = code
  /\ verdict.options = NoOptions

\* N: a non-empty string of digits
IsNumber(chars) == chars # <<>> /\ \A i \in 1..Len(chars) : chars[i] \in Digits

\* run := N | N-N
IsRun(chars) ==
  \/ IsNumber(chars)
  \/ \E k \in 1..Len(chars) :
       /\ chars[k] = "-"
       /\ IsNumber(SubSeq(chars, 1, k - 1))
       /\ IsNumber(SubSeq(chars, k + 1, Len(chars)))

\* run(,run)*: the string is cut at its commas into runs
RECURSIVE MatchesGrammar(_)
MatchesGrammar(chars) ==
  \/ IsRun(chars)
  \/ \E k \in 1..Len(chars) :
       /\ chars[k] = ","
       /\ IsRun(SubSeq(chars, 1, k - 1))
       /\ MatchesGrammar(SubSeq(chars, k + 1, Len(chars)))

\* the probe is a set of form fields whose pageRange is present, with value r
PageRangeProbe(r) ==
  /\ probe.kind = "options"
  /\ probe.fields.pageRange.t # "undefined"
  /\ probe.fields.pageRange.v = r

\* C16: a present pageRange string is accepted if and only if it matches
\* run(,run)*; every other string, the empty string included, is rejected
\* with INVALID_OPTIONS.
C16_PageRangeAcceptedIffGrammar ==
  \A r \in Strings(RangeAlphabet, MaxRangeLen) :
    PageRangeProbe(r)
    => /\ (Accepted <=> MatchesGrammar(r))
       /\ (~MatchesGrammar(r) => RejectedWith("INVALID_OPTIONS"))

SizeIssues ==
  {"size: Number must be greater than 0",
   "size: File size exceeds maximum allowed size (50MB)"}
TypeIssues == {"type: Invalid file type"}

\* C17: upload metadata is accepted if and only if 0 < size <= 52428800 and
\* the declared media type is in the allow-list; a rejection is INVALID_FILE
\* and its details hold exactly one entry for each violated field.
C17_FileAcceptedIffSizeAndType ==
  probe.kind = "file"
  => LET sizeOk == 0 < probe.part.size /\ probe.part.size <= MaxFileSize
         typeOk == probe.part.type \in AllowedFileTypes
     IN /\ (Accepted <=> sizeOk /\ typeOk)
        /\ (~Accepted
            => /\ RejectedWith("INVALID_FILE")
               /\ verdict.resp.details \subseteq SizeIssues \cup TypeIssues
               /\ Cardinality(verdict.resp.details \cap SizeIssues)
                    = (IF sizeOk THEN 0 ELSE 1)
               /\ Cardinality(verdict.resp.details \cap TypeIssues)
                    = (IF typeOk THEN 0 ELSE 1))

C17_Witness ==
  /\ probe.kind = "file"
  /\ probe.part.size = 0
  /\ probe.part.type = "text/plain"
  /\ RejectedWith("INVALID_FILE")
  /\ Cardinality(verdict.resp.details) = 2

\* the flag forwarded for a form field: the default when the field is
\* omitted, the supplied value when it is 'true' or 'false'
FlagForwarded(field, default, forwarded) ==
  /\ (field.t = "undefined" => forwarded = default)
  /\ (field.t # "undefined" /\ field.v \in {"true", "false"}
      => forwarded = (field.v = "true"))

\* C18: when the request omits includeImages or includeHeadersFooters the
\* forwarded options carry the configured default of the flag; when it
\* supplies 'true' or 'false' they carry the supplied value.
C18_FlagsDefaultWhenOmitted ==
  probe.kind = "options" /\ Accepted
  => /\ FlagForwarded(probe.fields.includeImages, DefaultIncludeImages,
                      verdict.options.includeImages)
     /\ FlagForwarded(probe.fields.includeHeadersFooters, DefaultIncludeHeadersFooters,
                      verdict.options.includeHeadersFooters)

\* chars is the decimal notation of an integer (an optional sign, digits)
IsInteger(chars) ==
  \/ IsNumber(chars)
  \/ chars # <<>> /\ Head(chars) \in {"-", "+"} /\ IsNumber(Tail(chars))

IntegerValue(chars) ==
  IF Head(chars) = "-" THEN 0 - DigitPrefix(0, Tail(chars))
  ELSE IF Head(chars) = "+" THEN DigitPrefix(0, Tail(chars))
  ELSE DigitPrefix(0, chars)

\* C19: maxOutputTokens is accepted if and only if it is an integer with
\* 1 <= value <= 32768, and is 8192 when absent; outputFormat is accepted
\* only from {markdown, html, json}, and is markdown when absent; any other
\* value is rejected with INVALID_OPTIONS.  (A field sent with an empty
\* value counts as absent.)
C19_TokensAndFormat ==
  probe.kind = "options"
  => LET tokens == probe.fields.maxOutputTokens
         format == probe.fields.outputFormat
         noTokens == tokens.t = "undefined" \/ tokens.v = <<>>
         noFormat == format.t = "undefined" \/ format.v = ""
         tokensOk == \/ noTokens
                     \/ /\ IsInteger(tokens.v)
                        /\ IntegerValue(tokens.v) \in 1..MaxOutputTokensLimit
         formatOk == noFormat \/ format.v \in OutputFormats
     IN /\ (probe.fields.pageRange.t = "undefined"
            => (Accepted <=> tokensOk /\ formatOk))
        /\ (~(tokensOk /\ formatOk) => RejectedWith("INVALID_OPTIONS"))
        /\ (Accepted /\ noTokens
            => verdict.options.maxOutputTokens = DefaultMaxOutputTokens)
        /\ (Accepted /\ ~noTokens
            => verdict.options.maxOutputTokens = IntegerValue(tokens.v))
        /\ (Accepted /\ noFormat => verdict.options.outputFormat = "markdown")
        /\ (Accepted /\ ~noFormat => verdict.options.outputFormat = format.v)

\* the characters of the class [a-z0-9.-]
SafeChars == Range(LowerCase) \cup Digits \cup {".", "-"}

NoRepeat(chars, c) ==
  \A i \in 1..(Len(chars) - 1) : ~(chars[i] = c /\ chars[i + 1] = c)

\* C20 as stated: the sanitized name contains only characters of
\* [a-z0-9.-], no repeated separator and no upper-case letter.
C20_SanitizedOnlySafeChars ==
  probe.kind = "filename"
  => /\ Range(verdict.filename) \subseteq SafeChars
     /\ NoRepeat(verdict.filename, "_")
     /\ Range(verdict.filename) \cap Range(UpperCase) = {}

\* C20 as amended: characters outside [a-z0-9.-] are not stripped but
\* replaced by '_': the sanitized name contains only characters of
\* [a-z0-9._-], has no two underscores in a row and no upper-case letter,
\* and is not empty.
C20_SanitizedSafeCharsOrUnderscore ==
  probe.kind = "filename"
  => /\ Range(verdict.filename) \subseteq SafeChars \cup {"_"}
     /\ NoRepeat(verdict.filename, "_")
     /\ Range(verdict.filename) \cap Range(UpperCase) = {}
     /\ verdict.filename # <<>>
     /\ Len(verdict.filename) <= Len(IF probe.filename = <<>> THEN DocumentChars
                                      ELSE probe.filename)

C20_Witness ==
  /\ probe.kind = "filename"
  /\ probe.filename = <<"Z", " ", "_">>
  /\ verdict.filename = <<"z", "_">>

(***************************************************************************)
(* Submissions with several documents in the field "file".                 *)
(***************************************************************************)
SeveralDocuments(h) ==
  IsSubmit(h) /\ req[h].method = "POST" /\ Len(req[h].upload) > 1

\* C21: a submission that supplies more than one document is not rejected
\* for that reason (a 400 response is the verdict on the first document and
\* the options), and the only request sent to the worker carries the first
\* document.
C21_FirstDocumentOnly ==
  \A h \in Handlers :
    SeveralDocuments(h)
    => /\ Len(workerCalls[h]) <= 1
       /\ \A i \in 1..Len(workerCalls[h]) :
            workerCalls[h][i].payload.file = req[h].upload[1]
       /\ (Responded(h) /\ response[h].http = 400
           => response[h] = ValidationVerdict(req[h].upload[1], req[h].fields))

\* C22: the body of a successful submission response is the worker's
\* acceptance reply with requestId and duration added: success, data (jobId,
\* status) and timestamp are the worker's, unchanged.
C22_SuccessBodyIsWorkersReply ==
  \A h \in Handlers :
    Responded(h) /\ IsSubmit(h) /\ response[h].success
    => /\ workerReply[h].kind = "ok"
       /\ response[h].http = 200
       /\ response[h].success = workerReply[h].body.success
       /\ response[h].data = workerReply[h].body.data
       /\ response[h].message = workerReply[h].body.message
       /\ response[h].code = workerReply[h].body.code
       /\ response[h].details = {}
       /\ response[h].requestId /\ response[h].duration /\ response[h].timestamp

C22_Witness ==
  \E h \in Handlers :
    /\ Responded(h) /\ IsSubmit(h) /\ response[h].success
    /\ response[h].data.jobId \in JobIds /\ response[h].data.status = "pending"
    /\ workerReply[h] = AcceptReply(response[h].data.jobId)

\* C23: for every submission whose pageRange matches the grammar, the
\* options forwarded to the worker contain exactly the submitted pageRange
\* string.
C23_PageRangeForwardedVerbatim ==
  ( /\ probe.kind = "options"
    /\ probe.fields.pageRange.t # "undefined"
    /\ MatchesGrammar(probe.fields.pageRange.v) )
  => /\ Accepted
     /\ verdict.options.pageRange = probe.fields.pageRange.v

C23_Witness ==
  /\ PageRangeProbe(<<"1", "-", "5">>)
  /\ probe.fields.pageRange.t = "string"
  /\ Accepted
  /\ verdict.options.pageRange = <<"1", "-", "5">>

(***************************************************************************)
(* The status and result handlers as readers of the worker's registry.     *)
(***************************************************************************)
\* invocation h has answered a query with the record of a finished job
TerminalAnswer(h) ==
  /\ Responded(h) /\ IsQuery(h)
  /\ response[h].success
  /\ response[h].data.status \in Terminal

\* C24: the status and result handlers send only GET requests to the
\* worker and no step of theirs changes a job record; the answers of all
\* queries for a job in a terminal state carry the same status and error,
\* and the same record when they are queries of the same kind.
C24_QueriesReadOnlyAndIdempotent ==
  [][ /\ \A h \in Handlers :
           req'[h].kind \in {"status", "result"}
           => /\ \A i \in 1..Len(workerCalls'[h]) :
                   workerCalls'[h][i].method = "GET"
              /\ (hpc'[h] # hpc[h] => jobs' = jobs)
      /\ \A h1, h2 \in Handlers :
           (TerminalAnswer(h1) /\ TerminalAnswer(h2)
            /\ req[h1].jobId = req[h2].jobId)'
           => /\ response'[h1].data.status = response'[h2].data.status
              /\ response'[h1].data.error = response'[h2].data.error
              /\ (req'[h1].kind = req'[h2].kind
                  => response'[h1].data = response'[h2].data)
    ]_vars

C24_Witness ==
  \E h1, h2 \in Handlers :
    /\ h1 # h2
    /\ TerminalAnswer(h1) /\ TerminalAnswer(h2)
    /\ req[h1].kind = "status" /\ req[h2].kind = "status"
    /\ req[h1].jobId = EarlierJob /\ req[h2].jobId = EarlierJob
    /\ response[h1].data.status = "failed"
    /\ response[h1].data = response[h2].data
    /\ workerCalls[h1] = <<[method |-> "GET", path |-> "status", payload |-> NoPayload]>>

(***************************************************************************)
(* Properties of the page's submission and poll session (checked under     *)
(* Spec).                                                                  *)
(***************************************************************************)
\* pending < processing < {completed, failed}
Rank(st) ==
  CASE st = "pending" -> 1
    [] st = "processing" -> 2
    [] st \in Terminal -> 3
    [] OTHER -> 0

\* the step in which poll handles a resolved fetch and stores a record
StoresRecord ==
  /\ pc \in {"checking", "fetching"}
  /\ outcome # NoOutcome /\ outcome' = NoOutcome
  /\ (jobStatus' # jobStatus \/ ~Failed(outcome))

\* C25: within a poll session every status the poller stores is at least
\* the one it stored before, in the order pending < processing <
\* {completed, failed}, and after a terminal status was stored only that
\* same status is stored again (the record of the result fetch included).
C25_StoredStatusNeverGoesBack ==
  [][ StoresRecord
      => /\ lastStored # Null
         /\ Rank(jobStatus'.status) >= Rank(lastStored)
         /\ (lastStored \in Terminal => jobStatus'.status = lastStored) ]_vars

C25_Witness ==
  /\ pc = "Completed"
  /\ attempts >= 2
  /\ lastStored = "completed"
  /\ jobStatus.status = "completed" /\ jobStatus.result = Content

SubmitResolvedStep ==
  pc = "submitting" /\ outcome # NoOutcome /\ outcome' = NoOutcome

\* C27: a poll session is started only by a successful submission and polls
\* the jobId of its response; when the submit request fails or its response
\* has success=false no status check is issued, the error is shown and
\* isProcessing returns to false.
C27_SessionOnlyFromSuccessfulSubmit ==
  [][ /\ (SubmitResolvedStep /\ Failed(outcome)
          => /\ statusChecks' = 0 /\ request' = NoFetch
             /\ error' = FailureMessage(outcome, "Processing failed")
             /\ ~isProcessing'
             /\ pc' = "idle")
      /\ (statusChecks = 0 /\ statusChecks' > 0
          => /\ SubmitResolvedStep /\ ~Failed(outcome)
             /\ outcome.resp.data.jobId \in KnownJobs
             /\ pollJobId' = outcome.resp.data.jobId)
      /\ (statusChecks' > statusChecks
          => /\ request' = Fetch("status", pollJobId')
             /\ (statusChecks > 0 => pollJobId' = pollJobId))
      /\ (pc' \in {"idle", "submitting"}
          => statusChecks' = 0 /\ request'.path # "status")
    ]_vars

C27_Witness ==
  /\ pc = "idle" /\ submits = MaxSubmits
  /\ error = "OCR processing failed"
  /\ ~isProcessing
  /\ statusChecks = 0 /\ request = NoFetch

\* the step in which poll handles a result fetch that succeeded
ResultDelivered ==
  /\ pc = "fetching"
  /\ outcome # NoOutcome /\ outcome' = NoOutcome
  /\ ~Failed(outcome)

\* C28: for a job accepted as pending and later completed by the worker
\* with content X, the session whose result fetch succeeds ends in Completed
\* and the record it delivers is the one the result fetch returned, with
\* content X.
C28_CompletedDeliversResultRecord ==
  [][ ResultDelivered
      => /\ pc' = "Completed" /\ ~isProcessing' /\ error' = error
         /\ jobStatus' = outcome.resp.data
         /\ jobStatus'.jobId = pollJobId
         /\ jobs[pollJobId].status = "completed"
         /\ jobStatus'.status = "completed"
         /\ jobStatus'.result = jobs[pollJobId].content
         /\ jobStatus'.result = Content ]_vars

C28_Witness ==
  /\ pc = "Completed" /\ ~isProcessing /\ error = Null
  /\ pollJobId \in KnownJobs
  /\ jobStatus = JobRecord(pollJobId, "completed", NoMsg, Content)
  /\ resultFetches = 1

(***************************************************************************)
(* Order of validation and temporary files in the process handler          *)
(* (checked under ServerSpec).                                             *)
(***************************************************************************)
\* invocation h handles a submission whose file or options are invalid
InvalidSubmission(h) ==
  /\ IsSubmit(h) /\ req[h].upload # <<>>
  /\ ValidationVerdict(uploadedFile(req[h]), req[h].fields) # NoResponse

\* C29: in the submit handler no temporary file holding uploaded bytes
\* exists before the validation of file metadata and options has run to
\* completion, and an invalid submission never has a temporary file.
C29_NoTempFileBeforeValidation ==
  \A h \in Handlers :
    /\ (IsSubmit(h) /\ hpc[h] \in {"received", "parsed"} => Leftover(h) = {})
    /\ (InvalidSubmission(h) => Leftover(h) = {})

(***************************************************************************)
(* Messages of the failures the route handlers report (checked under       *)
(* ServerSpec).                                                            *)
(***************************************************************************)
\* the message of the failure of a worker call: the worker's error message,
\* or the axios error's own message when the worker gave no response
UnderlyingMessage(reply) == IF reply.msg # NoMsg THEN reply.msg ELSE reply.own

\* C30: when the worker call of a handler fails, the message of its
\* PROCESSING_ERROR, STATUS_CHECK_ERROR or RESULT_FETCH_ERROR response is
\* the message of that failure: the worker's error message, or the
\* transport error's own message when the worker gave no response.
C30_ErrorMessageIsUnderlyingFailure ==
  \A h \in Handlers :
    Responded(h) /\ workerReply[h].kind = "axiosError"
    => /\ response[h].code \in {"PROCESSING_ERROR", "STATUS_CHECK_ERROR",
                                "RESULT_FETCH_ERROR"}
       /\ response[h].message = UnderlyingMessage(workerReply[h])

(***************************************************************************)
(* Requests of one handler invocation to the worker (checked under         *)
(* ServerSpec).                                                            *)
(***************************************************************************)
\* C31: the server side never retries: every invocation of the submit,
\* status or result handler sends at most one request to the worker,
\* whether the worker's reply is a success or a failure, and sends it to
\* its own endpoint.
C31_AtMostOneWorkerRequest ==
  \A h \in Handlers :
    /\ Len(workerCalls[h]) <= 1
    /\ (workerReply[h] # NoReply => Len(workerCalls[h]) = 1)
    /\ \A i \in 1..Len(workerCalls[h]) :
         workerCalls[h][i].path = (IF req[h].kind = "submit" THEN "process"
                                   ELSE req[h].kind)

C31_Witness ==
  \E h1, h2 \in Handlers :
    /\ Responded(h1) /\ IsSubmit(h1)
    /\ workerReply[h1].kind = "axiosError" /\ Len(workerCalls[h1]) = 1
    /\ Responded(h2) /\ IsQuery(h2)
    /\ workerReply[h2].kind = "axiosError" /\ Len(workerCalls[h2]) = 1

(***************************************************************************)
(* Timeout of the poll session (checked under Spec).                       *)
(***************************************************************************)
Unfinished == {"pending", "processing"}

\* the step in which poll handles the last status check its budget allows,
\* and that check shows an unfinished job
ExhaustsAttempts ==
  /\ PollStatusStep /\ ~Failed(outcome)
  /\ outcome.resp.data.status \in Unfinished
  /\ attempts + 1 >= maxAttempts

\* C32: a session that exhausts its attempts ends in TimedOut with the
\* timeout error; it neither stores nor reports the job as failed, the step
\* leaves the worker's job untouched and nothing is sent afterwards, so the
\* job may still complete later.
C32_TimeoutIsNotJobFailure ==
  [][ /\ (ExhaustsAttempts
          => /\ pc' = "TimedOut"
             /\ error' = TimeoutMsg /\ ~isProcessing'
             /\ jobStatus'.status \in Unfinished
             /\ jobs' = jobs)
      /\ (pc' = "TimedOut"
          => /\ lastStored' \in Unfinished
             /\ jobStatus'.status # "failed"
             /\ error' \in {TimeoutMsg, Null}
             /\ request' = NoFetch /\ timer' = NoTimer
             /\ resultFetches' = 0)
      /\ (pc = "TimedOut" /\ pc' = "TimedOut"
          => statusChecks' = statusChecks /\ resultFetches' = resultFetches)
    ]_vars

C32_Witness ==
  /\ pc = "TimedOut" /\ error = TimeoutMsg /\ ~isProcessing
  /\ jobStatus.status \in Unfinished
  /\ jobs[pollJobId].status = "completed"

(***************************************************************************)
(* Concurrent handler invocations (checked under ServerSpec).              *)
(***************************************************************************)
\* the temporary files in the upload directory that belong to invocation h
FilesOf(h) == {f \in tmpFiles : f[1] = h}

\* what invocation h holds: its request, position, requests to the worker,
\* the worker's reply, its response and its temporary files
Own(h) == <<req[h], hpc[h], workerCalls[h], workerReply[h], response[h], FilesOf(h)>>

\* C33: under every interleaving of handler invocations a step of one
\* invocation leaves everything of the other invocations as it was, their
\* temporary files included, and the response of an invocation is
\* determined by its own request and the worker's reply to it: invocations
\* with the same request and the same reply give the same response.
C33_InvocationsAreIndependent ==
  [][ /\ \A h \in Handlers :
           Own(h)' # Own(h)
           => \A g \in Handlers \ {h} : Own(g)' = Own(g)
      /\ \A h, g \in Handlers :
           ( /\ hpc'[h] = "responded" /\ hpc'[g] = "responded"
             /\ req'[h] = req'[g]
             /\ workerReply'[h] = workerReply'[g] )
           => response'[h] = response'[g]
    ]_vars

C33_Witness ==
  \E h, g \in Handlers :
    /\ h # g
    /\ Responded(h) /\ IsSubmit(h) /\ response[h].success
    /\ FilesOf(h) = {}
    /\ IsSubmit(g) /\ hpc[g] = "forwarding"
    /\ FilesOf(g) # {}
    /\ req[g] = req[h]

(***************************************************************************)
(* Termination of the poll session (checked under FairSpec).               *)
(***************************************************************************)
\* C34: every poll session eventually reaches a terminal client state
\* (Completed, Failed, TimedOut or Errored) with isProcessing false,
\* whatever the worker does, when fetches resolve and timers fire.
C34_SessionTerminates ==
  (pc \in PollActive) ~> (pc \in PollTerminal /\ ~isProcessing)

C34_Witness ==
  /\ pc = "TimedOut" /\ ~isProcessing
  /\ statusChecks = maxAttempts
  /\ jobs[pollJobId].status \in Unfinished

(***************************************************************************)
(* Budget of a poll session (checked under Spec).                          *)
(***************************************************************************)
\* C35: in every poll session at most 60 status checks and at most one
\* result fetch are issued; a wait is scheduled only after one of the
\* first 59 checks (so at most 59 waits, none after the 60th check); a
\* result fetch is issued only after a status check of the session
\* returned completed.
C35_SessionBudget ==
  /\ statusChecks <= maxAttempts
  /\ resultFetches <= 1
  /\ attempts <= maxAttempts
  /\ (timer # NoTimer
      => /\ attempts \in 1..(maxAttempts - 1)
         /\ statusChecks = attempts)
  /\ (statusChecks = maxAttempts => timer = NoTimer)
  /\ (resultFetches = 1 => lastStored = "completed" /\ statusChecks >= 1)
  /\ (request.path = "result" => resultFetches = 1 /\ request.jobId = pollJobId)

C35_Witness ==
  /\ pc = "Completed"
  /\ statusChecks = maxAttempts
  /\ attempts = maxAttempts - 1
  /\ resultFetches = 1

(***************************************************************************)
(* isProcessing and the single poll session (checked under Spec).          *)
(***************************************************************************)
\* a submission request, a status check, a result fetch or a poll timer of
\* the page is pending
WorkPending ==
  \/ pc \in {"submitting"} \cup PollActive
  \/ request # NoFetch
  \/ outcome # NoOutcome
  \/ timer # NoTimer

\* C36: isProcessing is true whenever a submission request, a status check,
\* a result fetch or a poll timer is pending, and false once the flow has
\* ended; while it is true no submission can be started, so no second
\* session begins while one is active.
C36_ProcessingCoversPendingWork ==
  /\ (WorkPending => isProcessing)
  /\ (pc \in PollTerminal \cup {"idle"} => ~isProcessing /\ ~WorkPending)
  /\ (isProcessing => ~ENABLED handleSubmit)

C36_Witness ==
  /\ pc = "waiting" /\ timer = PollInterval /\ isProcessing
  /\ file # NoFile /\ submits < MaxSubmits
  /\ ~ENABLED handleSubmit

(***************************************************************************)
(* File selection during a poll session (checked under Spec).              *)
(***************************************************************************)
\* C37: after handleFileSelect has cleared the job status and the error
\* for a newly selected file, no later update stores a job record or an
\* error of the poll session that was started before the selection: until
\* the next submission only a further file selection changes them.
C37_NoStaleUpdateAfterSelection ==
  [][ (cancelled /\ cancelled' /\ file # NoFile /\ file' = file)
      => jobStatus' = jobStatus /\ error' = error ]_vars

(***************************************************************************)
(* A result fetch answered with a failure envelope (checked under Spec).   *)
(***************************************************************************)
\* the step in which poll handles a result fetch whose envelope has
\* success=false
ResultRefused ==
  /\ pc = "fetching"
  /\ outcome.state = "delivered" /\ ~outcome.resp.success
  /\ outcome' = NoOutcome

\* C38: when a session has observed status completed and the result fetch
\* returns an envelope with success=false, the poller shows an error and
\* does not end in Completed with the record of the status check.
C38_FailedResultFetchIsSurfaced ==
  [][ ResultRefused => error' # Null /\ pc' # "Completed" ]_vars

====
